---- MODULE Spec2Model ----
(***************************************************************************)
(* Friday Night at the ER optimizer: the hourly state transition and the   *)
(* one-hour integer program of er_model.optimize_hour, and the input       *)
(* validation of app._collect_hour_input / app.main.                       *)
(*                                                                         *)
(* One call of optimize_hour is a sequence of steps on the shared          *)
(* GameState (it is mutated in place), tracked by pc:                      *)
(*   idle/raised -> rolled -> departed -> transitioned                     *)
(*        -> applied -> totaled -> idle      (solver status Optimal)       *)
(*        -> raised                          (any other status)            *)
(* and pc = "rejected" when app.main found validation errors and made no   *)
(* call.                                                                   *)
(***************************************************************************)
EXTENDS Integers, Sequences, FiniteSets, TLC

\* ------------------------------------------------------------ bounds
\* calls of optimize_hour started in one behaviour
MaxCalls == 2

\* the calls of optimize_hour made in a game played past its 24th hour
MaxDayCalls == 26

\* ------------------------------------------------------------ constants
DeptOrder == <<"ED", "SD", "CC", "SU">>
DEPARTMENTS == {DeptOrder[i] : i \in 1..Len(DeptOrder)}
NonED == DEPARTMENTS \ {"ED"}
Targets == DEPARTMENTS \cup {"OUT"}

TOTAL_ROOMS == [ED |-> 25, SD |-> 30, CC |-> 18, SU |-> 9]
STATE0_PATIENTS == [ED |-> 16, SD |-> 22, CC |-> 12, SU |-> 4]
STATE0_STAFF == [ED |-> 18, SD |-> 24, CC |-> 13, SU |-> 6]

FINANCIAL ==
  [ED |-> [diversion |-> 5000, waiting |-> 150, extra_staff |-> 40],
   SD |-> [arrivals_waiting |-> 3750, extra_staff |-> 40],
   CC |-> [arrivals_waiting |-> 3750, extra_staff |-> 40],
   SU |-> [arrivals_waiting |-> 3750, extra_staff |-> 40]]

QUALITY ==
  [ED |-> [diversion |-> 200, waiting |-> 20, extra_staff |-> 5],
   SD |-> [arrivals_waiting |-> 20, requests_waiting |-> 20, extra_staff |-> 5],
   CC |-> [arrivals_waiting |-> 20, requests_waiting |-> 20, extra_staff |-> 5],
   SU |-> [arrivals_waiting |-> 20, requests_waiting |-> 20, extra_staff |-> 5]]

\* default arguments of optimize_hour
DefaultQualityWeight == 1
DefaultFlowReward == 300

\* ------------------------------------------------------------ helpers
Min2(a, b) == IF a <= b THEN a ELSE b
Max2(a, b) == IF a >= b THEN a ELSE b

RECURSIVE SumOver(_, _)
SumOver(f, S) ==
  IF S = {} THEN 0
  ELSE LET x == CHOOSE y \in S : TRUE IN f[x] + SumOver(f, S \ {x})

\* the least element of a non-empty set of integers
SetMin(S) == CHOOSE v \in S : \A w \in S : v <= w

IndexOf(d) == CHOOSE i \in 1..Len(DeptOrder) : DeptOrder[i] = d

\* ------------------------------------------------------------ data model
DepartmentState(p, s) ==
  [patients |-> p, staff |-> s, ext_waiting |-> 0, ed_walkin_waiting |-> 0,
   ed_ambulance_waiting |-> 0, req_waiting_mature |-> 0, req_waiting_new |-> 0]

Totals0 ==
  [ed_diversions |-> 0, ed_waiting |-> 0, ed_extra_staff |-> 0,
   dep_arrivals_waiting |-> [d \in NonED |-> 0],
   dep_requests_waiting |-> [d \in NonED |-> 0],
   dep_extra_staff |-> [d \in NonED |-> 0],
   throughput_admitted |-> 0, discharged_out |-> 0]

financial_cost(t) ==
  LET ed == t.ed_diversions * FINANCIAL["ED"].diversion
            + t.ed_waiting * FINANCIAL["ED"].waiting
            + t.ed_extra_staff * FINANCIAL["ED"].extra_staff
      others == [d \in NonED |->
                   t.dep_arrivals_waiting[d] * FINANCIAL[d].arrivals_waiting
                   + t.dep_extra_staff[d] * FINANCIAL[d].extra_staff]
  IN ed + SumOver(others, NonED)

quality_penalty(t) ==
  LET ed == t.ed_diversions * QUALITY["ED"].diversion
            + t.ed_waiting * QUALITY["ED"].waiting
            + t.ed_extra_staff * QUALITY["ED"].extra_staff
      others == [d \in NonED |->
                   t.dep_arrivals_waiting[d] * QUALITY[d].arrivals_waiting
                   + t.dep_requests_waiting[d] * QUALITY[d].requests_waiting
                   + t.dep_extra_staff[d] * QUALITY[d].extra_staff]
  IN ed + SumOver(others, NonED)

GameState0 ==
  [hour |-> 1,
   depts |-> [d \in DEPARTMENTS |->
                DepartmentState(STATE0_PATIENTS[d], STATE0_STAFF[d])],
   totals |-> Totals0]

\* mutant: no clamping
clamp_non_negative_identity(value) == value

clamp_non_negative(value) == Max2(0, value)

\* ------------------------------------------------------------ HourInput
HourInput(ext, walkin, ambulance, delta, ready, dest) ==
  [external_arrivals |-> ext, ed_walkin_arrivals |-> walkin,
   ed_ambulance_arrivals |-> ambulance, staff_delta |-> delta,
   ready_to_exit |-> ready, destinations |-> dest]

\* destinations.get((d, t), 0): a key that is absent counts 0
NoDest == [k \in DEPARTMENTS \X Targets |-> 0]
Dest(entries) == entries @@ NoDest

ZeroInput ==
  HourInput([d \in DEPARTMENTS |-> 0], 0, 0, [d \in DEPARTMENTS |-> 0],
            [d \in DEPARTMENTS |-> 0], NoDest)

\* ------------------------------------------------------------ state transition
\* 1) _roll_request_age
roll_request_age(D) ==
  [d \in DEPARTMENTS |->
     [D[d] EXCEPT !.req_waiting_mature = D[d].req_waiting_mature + D[d].req_waiting_new,
                  !.req_waiting_new = 0]]

actual_departures(D, hi, d) ==
  Min2(clamp_non_negative(hi.ready_to_exit[d]), D[d].patients)

out_count(D, hi, d) ==
  Min2(clamp_non_negative(hi.destinations[<<d, "OUT">>]), actual_departures(D, hi, d))

\* mutant: the targets are visited in reverse order
RECURSIVE route_requests_reversed(_, _, _, _)
route_requests_reversed(hi, d, i, remaining) ==
  IF i > Len(DeptOrder) THEN << >>
  ELSE LET t == DeptOrder[Len(DeptOrder) + 1 - i]
           req == IF t = d \/ remaining <= 0 THEN 0
                  ELSE Min2(clamp_non_negative(hi.destinations[<<d, t>>]), remaining)
       IN route_requests_reversed(hi, d, i + 1, remaining - req) \o <<req>>

\* mutant: an entry is not clipped to the departures still unallocated
RECURSIVE route_requests_unclipped(_, _, _, _)
route_requests_unclipped(hi, d, i, remaining) ==
  IF i > Len(DeptOrder) THEN << >>
  ELSE LET t == DeptOrder[i]
           req == IF t = d \/ remaining <= 0 THEN 0
                  ELSE clamp_non_negative(hi.destinations[<<d, t>>])
       IN <<req>> \o route_requests_unclipped(hi, d, i + 1, remaining - req)

\* the inner loop over the targets, from the i-th department on, with `remaining`
\* departures still unallocated: the request counts, in DeptOrder
RECURSIVE route_requests(_, _, _, _)
route_requests(hi, d, i, remaining) ==
  IF i > Len(DeptOrder) THEN << >>
  ELSE LET t == DeptOrder[i]
           req == IF t = d \/ remaining <= 0 THEN 0
                  ELSE Min2(clamp_non_negative(hi.destinations[<<d, t>>]), remaining)
       IN <<req>> \o route_requests(hi, d, i + 1, remaining - req)

\* requests routed from d to t in this call
routed_to(D, hi, d, t) ==
  route_requests(hi, d, 1, actual_departures(D, hi, d) - out_count(D, hi, d))[IndexOf(t)]

routed_from(D, hi, d) ==
  SumOver([t \in DEPARTMENTS |-> routed_to(D, hi, d, t)], DEPARTMENTS)

routed_into(D, hi, t) ==
  SumOver([d \in DEPARTMENTS |-> routed_to(D, hi, d, t)], DEPARTMENTS)

\* mutant: what no entry took is not discharged
discharged_from_no_spill(D, hi, d) == out_count(D, hi, d)

\* discharged_out[d]: the OUT entry plus the spill of what no entry took
discharged_from(D, hi, d) ==
  LET remaining == actual_departures(D, hi, d) - out_count(D, hi, d)
                   - routed_from(D, hi, d)
  IN out_count(D, hi, d) + (IF remaining > 0 THEN remaining ELSE 0)

\* mutant: the routed requests are put in the mature queue
apply_departures_and_requests_mature(D, hi) ==
  [d \in DEPARTMENTS |->
     [D[d] EXCEPT !.patients = D[d].patients - actual_departures(D, hi, d),
                  !.req_waiting_mature =
                     D[d].req_waiting_mature + routed_into(D, hi, d)]]

\* 2) _apply_departures_and_requests: the departments after the loop
apply_departures_and_requests(D, hi) ==
  [d \in DEPARTMENTS |->
     [D[d] EXCEPT !.patients = D[d].patients - actual_departures(D, hi, d),
                  !.req_waiting_new = D[d].req_waiting_new + routed_into(D, hi, d)]]

\* mutant: the staff delta is subtracted
staff_after_shock_subtracted(staff, delta) == clamp_non_negative(staff - delta)

\* mutant: the staff after a shock is not clamped
staff_after_shock_unclamped(staff, delta) == staff + delta

\* 3) external arrivals and staff shocks
staff_after_shock(staff, delta) == clamp_non_negative(staff + delta)

apply_arrivals_and_staff(D, hi) ==
  [d \in DEPARTMENTS |->
     IF d = "ED"
     THEN [D[d] EXCEPT
             !.ed_walkin_waiting =
                D[d].ed_walkin_waiting + clamp_non_negative(hi.ed_walkin_arrivals),
             !.ed_ambulance_waiting =
                D[d].ed_ambulance_waiting + clamp_non_negative(hi.ed_ambulance_arrivals),
             !.staff = staff_after_shock(D[d].staff, hi.staff_delta[d])]
     ELSE [D[d] EXCEPT
             !.ext_waiting =
                D[d].ext_waiting + clamp_non_negative(hi.external_arrivals[d]),
             !.staff = staff_after_shock(D[d].staff, hi.staff_delta[d])]]

\* ------------------------------------------------------------ optimizer
(***************************************************************************)
(* The integer program of step 4.  No constraint and no objective term     *)
(* joins the variables of two departments, so the program is solved one    *)
(* department at a time: an assignment is optimal iff its part for each    *)
(* department is optimal for that department's constraints and terms.      *)
(* A department's part is the record                                       *)
(*   [admit_ext, admit_ed_walkin, admit_ed_ambulance, admit_req,           *)
(*    extra_staff, divert_ed]                                              *)
(* where the Emergency-only variables are 0 outside "ED".                  *)
(***************************************************************************)

\* extra_staff has no upper bound in the program.  patients_end <= TOTAL_ROOMS
\* makes every value above TOTAL_ROOMS - staff slack in staff_capacity, so the
\* enumeration stops there; whether the program is bounded at all is decided
\* by the sign of the variable's objective coefficient (SolveStatus).
\* mutant: at most 2 extra staff can be called
ExtraStaffRange_capped(D, d) == 0..2

\* mutant: no extra staff can be called
ExtraStaffRange_none(D, d) == {0}

ExtraStaffRange(D, d) == 0..Max2(0, TOTAL_ROOMS[d] - D[d].staff)

\* the variables within their queue bounds: ext_admit_bound / ed_ext_disabled,
\* req_admit_bound, ed_walkin_admit_bound, ed_ambulance_admit_bound,
\* ed_divert_bound, ed_arrival_split
QueueBounds(D, d) ==
  IF d = "ED"
  THEN {x \in [admit_ext : {0},
               admit_ed_walkin : 0..D[d].ed_walkin_waiting,
               admit_ed_ambulance : 0..D[d].ed_ambulance_waiting,
               admit_req : 0..D[d].req_waiting_mature,
               extra_staff : ExtraStaffRange(D, d),
               divert_ed : 0..D[d].ed_ambulance_waiting] :
          x.admit_ed_ambulance + x.divert_ed <= D[d].ed_ambulance_waiting}
  ELSE [admit_ext : 0..D[d].ext_waiting,
        admit_ed_walkin : {0},
        admit_ed_ambulance : {0},
        admit_req : 0..D[d].req_waiting_mature,
        extra_staff : ExtraStaffRange(D, d),
        divert_ed : {0}]

ext_admit_term(d, x) ==
  IF d = "ED" THEN x.admit_ed_walkin + x.admit_ed_ambulance ELSE x.admit_ext

patients_end(D, d, x) == D[d].patients + ext_admit_term(d, x) + x.admit_req

room_capacity(D, d, x) == patients_end(D, d, x) <= TOTAL_ROOMS[d]

\* mutant: the staffing constraint written on the patients before admission
staff_capacity_start_patients(D, d, x) == D[d].patients <= D[d].staff + x.extra_staff

staff_capacity(D, d, x) == patients_end(D, d, x) <= D[d].staff + x.extra_staff

Feasible(D, d) ==
  {x \in QueueBounds(D, d) : room_capacity(D, d, x) /\ staff_capacity(D, d, x)}

\* end-of-hour waiting expressions
ext_wait_end(D, d, x) == D[d].ext_waiting - x.admit_ext
ed_walkin_wait_end(D, x) == D["ED"].ed_walkin_waiting - x.admit_ed_walkin
ed_ambulance_wait_end(D, x) ==
  D["ED"].ed_ambulance_waiting - x.admit_ed_ambulance - x.divert_ed
req_wait_end(D, d, x) ==
  D[d].req_waiting_mature - x.admit_req + D[d].req_waiting_new

\* mutant: a diversion costs nothing
financial_diversion_free(D, d, x) ==
  IF d = "ED"
  THEN FINANCIAL["ED"].waiting
         * (ed_walkin_wait_end(D, x) + ed_ambulance_wait_end(D, x)
            + req_wait_end(D, "ED", x))
       + FINANCIAL["ED"].extra_staff * x.extra_staff
  ELSE FINANCIAL[d].arrivals_waiting * ext_wait_end(D, d, x)
       + FINANCIAL[d].extra_staff * x.extra_staff

\* objective pieces, the terms of department d
financial(D, d, x) ==
  IF d = "ED"
  THEN FINANCIAL["ED"].diversion * x.divert_ed
       + FINANCIAL["ED"].waiting
         * (ed_walkin_wait_end(D, x) + ed_ambulance_wait_end(D, x)
            + req_wait_end(D, "ED", x))
       + FINANCIAL["ED"].extra_staff * x.extra_staff
  ELSE FINANCIAL[d].arrivals_waiting * ext_wait_end(D, d, x)
       + FINANCIAL[d].extra_staff * x.extra_staff

quality(D, d, x) ==
  IF d = "ED"
  THEN QUALITY["ED"].diversion * x.divert_ed
       + QUALITY["ED"].waiting
         * (ed_walkin_wait_end(D, x) + ed_ambulance_wait_end(D, x)
            + req_wait_end(D, "ED", x))
       + QUALITY["ED"].extra_staff * x.extra_staff
  ELSE QUALITY[d].arrivals_waiting * ext_wait_end(D, d, x)
       + QUALITY[d].requests_waiting * req_wait_end(D, d, x)
       + QUALITY[d].extra_staff * x.extra_staff

throughput(d, x) ==
  IF d = "ED" THEN x.admit_ed_walkin + x.admit_ed_ambulance + x.admit_req
  ELSE x.admit_ext + x.admit_req

\* mutant: the objective has no flow reward
Objective_no_flow_reward(D, d, x, qw, fr) ==
  financial(D, d, x) + qw * quality(D, d, x)

\* mutant: the flow reward is added as a cost
Objective_flow_penalised(D, d, x, qw, fr) ==
  financial(D, d, x) + qw * quality(D, d, x) + fr * throughput(d, x)

\* mutant: the objective is maximised
Objective_maximised(D, d, x, qw, fr) ==
  0 - (financial(D, d, x) + qw * quality(D, d, x) - fr * throughput(d, x))

Objective(D, d, x, qw, fr) ==
  financial(D, d, x) + qw * quality(D, d, x) - fr * throughput(d, x)

\* the optimal assignments of department d
Optimal(D, d, qw, fr) ==
  LET F == Feasible(D, d)
      val == [x \in F |-> Objective(D, d, x, qw, fr)]
      best == SetMin({val[x] : x \in F})
  IN {x \in F : val[x] = best}

\* the objective coefficient of extra_staff[d]
ExtraStaffCoefficient(d, qw) == FINANCIAL[d].extra_staff + qw * QUALITY[d].extra_staff

\* prob.solve: the status of the program.  Every variable but extra_staff is
\* bounded by a queue; extra_staff is bounded below only, so the program is
\* unbounded exactly when it is feasible and some extra_staff coefficient is
\* negative.
SolveStatus(D, qw) ==
  IF \E d \in DEPARTMENTS : Feasible(D, d) = {} THEN "Infeasible"
  ELSE IF \E d \in DEPARTMENTS : ExtraStaffCoefficient(d, qw) < 0 THEN "Unbounded"
  ELSE "Optimal"

\* mutant: the extra staff called is not added to staff
apply_decisions_staff_dropped(D, x) ==
  [d \in DEPARTMENTS |->
     IF d = "ED"
     THEN [D[d] EXCEPT
             !.patients = D[d].patients + x[d].admit_ed_walkin
                          + x[d].admit_ed_ambulance + x[d].admit_req,
             !.ed_walkin_waiting = D[d].ed_walkin_waiting - x[d].admit_ed_walkin,
             !.ed_ambulance_waiting =
                Max2(0, (D[d].ed_ambulance_waiting - x[d].admit_ed_ambulance)
                        - x[d].divert_ed),
             !.req_waiting_mature = D[d].req_waiting_mature - x[d].admit_req]
     ELSE [D[d] EXCEPT
             !.patients = D[d].patients + x[d].admit_ext + x[d].admit_req,
             !.ext_waiting = D[d].ext_waiting - x[d].admit_ext,
             !.req_waiting_mature = D[d].req_waiting_mature - x[d].admit_req]]

\* mutant: the ambulances admitted are taken from the walk-in queue and the
\* walk-ins from the ambulance queue
apply_decisions_swapped(D, x) ==
  [d \in DEPARTMENTS |->
     IF d = "ED"
     THEN [D[d] EXCEPT
             !.patients = D[d].patients + x[d].admit_ed_walkin
                          + x[d].admit_ed_ambulance + x[d].admit_req,
             !.ed_walkin_waiting = D[d].ed_walkin_waiting - x[d].admit_ed_ambulance,
             !.ed_ambulance_waiting =
                Max2(0, (D[d].ed_ambulance_waiting - x[d].admit_ed_walkin)
                        - x[d].divert_ed),
             !.req_waiting_mature = D[d].req_waiting_mature - x[d].admit_req,
             !.staff = D[d].staff + x[d].extra_staff]
     ELSE [D[d] EXCEPT
             !.patients = D[d].patients + x[d].admit_ext + x[d].admit_req,
             !.ext_waiting = D[d].ext_waiting - x[d].admit_ext,
             !.req_waiting_mature = D[d].req_waiting_mature - x[d].admit_req,
             !.staff = D[d].staff + x[d].extra_staff]]

\* 5) the solved assignment x (x[d] is department d's part) applied to the state
apply_decisions(D, x) ==
  [d \in DEPARTMENTS |->
     IF d = "ED"
     THEN [D[d] EXCEPT
             !.patients = D[d].patients + x[d].admit_ed_walkin
                          + x[d].admit_ed_ambulance + x[d].admit_req,
             !.ed_walkin_waiting = D[d].ed_walkin_waiting - x[d].admit_ed_walkin,
             !.ed_ambulance_waiting =
                Max2(0, (D[d].ed_ambulance_waiting - x[d].admit_ed_ambulance)
                        - x[d].divert_ed),
             !.req_waiting_mature = D[d].req_waiting_mature - x[d].admit_req,
             !.staff = D[d].staff + x[d].extra_staff]
     ELSE [D[d] EXCEPT
             !.patients = D[d].patients + x[d].admit_ext + x[d].admit_req,
             !.ext_waiting = D[d].ext_waiting - x[d].admit_ext,
             !.req_waiting_mature = D[d].req_waiting_mature - x[d].admit_req,
             !.staff = D[d].staff + x[d].extra_staff]]

\* the decision record of each department
decision_records(x) ==
  [d \in DEPARTMENTS |->
     IF d = "ED"
     THEN [admit_external |-> x[d].admit_ed_walkin + x[d].admit_ed_ambulance,
           admit_requests |-> x[d].admit_req,
           call_extra_staff |-> x[d].extra_staff,
           admit_walkins |-> x[d].admit_ed_walkin,
           admit_ambulance |-> x[d].admit_ed_ambulance,
           divert_ambulances |-> x[d].divert_ed]
     ELSE [admit_external |-> x[d].admit_ext,
           admit_requests |-> x[d].admit_req,
           call_extra_staff |-> x[d].extra_staff]]

admitted_total(dec) ==
  SumOver([d \in DEPARTMENTS |-> dec[d].admit_external + dec[d].admit_requests],
          DEPARTMENTS)

\* mutant: the requests waiting are left out of the Emergency waiting figure
ed_waiting_figure_arrivals_only(D) ==
  D["ED"].ed_walkin_waiting + D["ED"].ed_ambulance_waiting

ed_waiting_figure(D) ==
  D["ED"].ed_walkin_waiting + D["ED"].ed_ambulance_waiting
  + D["ED"].req_waiting_mature

\* mutant: the arrivals-waiting total is assigned, not accumulated
update_totals_assigned(t, D, dec, discharged) ==
  [ed_diversions |-> t.ed_diversions + dec["ED"].divert_ambulances,
   ed_waiting |-> t.ed_waiting + ed_waiting_figure(D),
   ed_extra_staff |-> t.ed_extra_staff + dec["ED"].call_extra_staff,
   dep_arrivals_waiting |-> [d \in NonED |-> D[d].ext_waiting],
   dep_requests_waiting |->
     [d \in NonED |-> t.dep_requests_waiting[d]
                      + (D[d].req_waiting_mature + D[d].req_waiting_new)],
   dep_extra_staff |->
     [d \in NonED |-> t.dep_extra_staff[d] + dec[d].call_extra_staff],
   throughput_admitted |-> t.throughput_admitted + admitted_total(dec),
   discharged_out |-> t.discharged_out + SumOver(discharged, DEPARTMENTS)]

\* 6) cumulative performance totals
update_totals(t, D, dec, discharged) ==
  [ed_diversions |-> t.ed_diversions + dec["ED"].divert_ambulances,
   ed_waiting |-> t.ed_waiting + ed_waiting_figure(D),
   ed_extra_staff |-> t.ed_extra_staff + dec["ED"].call_extra_staff,
   dep_arrivals_waiting |->
     [d \in NonED |-> t.dep_arrivals_waiting[d] + D[d].ext_waiting],
   dep_requests_waiting |->
     [d \in NonED |-> t.dep_requests_waiting[d]
                      + (D[d].req_waiting_mature + D[d].req_waiting_new)],
   dep_extra_staff |->
     [d \in NonED |-> t.dep_extra_staff[d] + dec[d].call_extra_staff],
   throughput_admitted |-> t.throughput_admitted + admitted_total(dec),
   discharged_out |-> t.discharged_out + SumOver(discharged, DEPARTMENTS)]

\* ------------------------------------------------------------ state
VARIABLES
  hour, depts, totals,        \* the GameState
  pc,                         \* where the call in progress stands
  ncalls,                     \* calls of optimize_hour started so far
  hour_input, quality_weight, flow_reward,   \* the arguments of the call
  discharged_out_by_dept,     \* local of optimize_hour, set in step 2
  decisions,                  \* local of optimize_hour, set in step 5
  pre,                        \* the GameState as it was when the call started
  caller,                     \* "direct" or "main": who made the call
  form,                       \* what the UI's input widgets last held
  errors                      \* the departments _collect_hour_input last
                              \* reported an error for

vars == <<hour, depts, totals, pc, ncalls, hour_input, quality_weight,
          flow_reward, discharged_out_by_dept, decisions, pre, caller, form, errors>>

game == <<hour, depts, totals>>
args == <<hour_input, quality_weight, flow_reward, caller>>
ui == <<form, errors>>

NoDischarge == [d \in DEPARTMENTS |-> 0]

Init ==
  /\ hour = GameState0.hour
  /\ depts = GameState0.depts
  /\ totals = GameState0.totals
  /\ pc = "idle"
  /\ ncalls = 0
  /\ hour_input = ZeroInput
  /\ quality_weight = DefaultQualityWeight
  /\ flow_reward = DefaultFlowReward
  /\ discharged_out_by_dept = NoDischarge
  /\ decisions = << >>
  /\ pre = GameState0
  /\ caller = "direct"
  /\ form = ZeroInput
  /\ errors = {}

\* optimize_hour(state, hi, qw, fr) is entered; step 1, _roll_request_age
Begin(hi, qw, fr, who) ==
  /\ pc \in {"idle", "raised", "rejected"}
  /\ ncalls' = ncalls + 1
  /\ hour_input' = hi
  /\ quality_weight' = qw
  /\ flow_reward' = fr
  /\ caller' = who
  /\ pre' = [hour |-> hour, depts |-> depts, totals |-> totals]
  /\ depts' = roll_request_age(depts)
  /\ discharged_out_by_dept' = NoDischarge
  /\ decisions' = << >>
  /\ pc' = "rolled"
  /\ UNCHANGED <<hour, totals>>

\* a call, as long as fewer than MaxCalls were made
Enter(hi, qw, fr, who) ==
  /\ ncalls < MaxCalls
  /\ Begin(hi, qw, fr, who)

\* step 2, _apply_departures_and_requests
Departures ==
  /\ pc = "rolled"
  /\ depts' = apply_departures_and_requests(depts, hour_input)
  /\ discharged_out_by_dept' =
       [d \in DEPARTMENTS |-> discharged_from(depts, hour_input, d)]
  /\ pc' = "departed"
  /\ UNCHANGED <<hour, totals, ncalls, args, decisions, pre, ui>>

\* step 3, arrivals and staff shocks
Arrivals ==
  /\ pc = "departed"
  /\ depts' = apply_arrivals_and_staff(depts, hour_input)
  /\ pc' = "transitioned"
  /\ UNCHANGED <<hour, totals, ncalls, args, discharged_out_by_dept, decisions,
                 pre, ui>>

\* steps 4 and 5: the solver returns Optimal with one of the optimal
\* assignments, which is applied
Solve ==
  /\ pc = "transitioned"
  /\ SolveStatus(depts, quality_weight) = "Optimal"
  /\ \E xe \in Optimal(depts, "ED", quality_weight, flow_reward),
        xs \in Optimal(depts, "SD", quality_weight, flow_reward),
        xc \in Optimal(depts, "CC", quality_weight, flow_reward),
        xu \in Optimal(depts, "SU", quality_weight, flow_reward) :
       LET x == [ED |-> xe, SD |-> xs, CC |-> xc, SU |-> xu]
       IN /\ depts' = apply_decisions(depts, x)
          /\ decisions' = decision_records(x)
  /\ pc' = "applied"
  /\ UNCHANGED <<hour, totals, ncalls, args, discharged_out_by_dept, pre, ui>>

\* step 4: any other status raises RuntimeError out of optimize_hour
SolveFailed ==
  /\ pc = "transitioned"
  /\ SolveStatus(depts, quality_weight) # "Optimal"
  /\ pc' = "raised"
  /\ UNCHANGED <<game, ncalls, args, discharged_out_by_dept, decisions, pre, ui>>

\* step 6
UpdateTotals ==
  /\ pc = "applied"
  /\ totals' = update_totals(totals, depts, decisions, discharged_out_by_dept)
  /\ pc' = "totaled"
  /\ UNCHANGED <<hour, depts, ncalls, args, discharged_out_by_dept, decisions,
                 pre, ui>>

\* mutant: the hour counter stops at the 24th hour
NextHour_capped ==
  /\ pc = "totaled"
  /\ hour' = IF hour < 24 THEN hour + 1 ELSE hour
  /\ pc' = "idle"
  /\ UNCHANGED <<depts, totals, ncalls, args, discharged_out_by_dept, decisions,
                 pre, ui>>

\* step 7, and the return
NextHour ==
  /\ pc = "totaled"
  /\ hour' = hour + 1
  /\ pc' = "idle"
  /\ UNCHANGED <<depts, totals, ncalls, args, discharged_out_by_dept, decisions,
                 pre, ui>>

\* ------------------------------------------------------------ inputs
\* The hour's card data is drawn as one arrival card, one staffing card and
\* one exit card.
PerDept(ed, sd, cc, su) == [ED |-> ed, SD |-> sd, CC |-> cc, SU |-> su]

\* arrival cards: [ext, walkin, ambulance]
NoArrivals == [ext |-> PerDept(0, 0, 0, 0), walkin |-> 0, ambulance |-> 0]
AmbulanceArrivals == [ext |-> PerDept(0, -1, 0, 0), walkin |-> -1, ambulance |-> 2]
HeavyArrivals == [ext |-> PerDept(0, 10, 2, 6), walkin |-> 3, ambulance |-> 2]

ArrivalCards == {NoArrivals, AmbulanceArrivals, HeavyArrivals}

\* staffing cards: the staff delta of each department
NoShock == PerDept(0, 0, 0, 0)
StaffShock == PerDept(3, -2, -1, -30)

StaffCards == {NoShock, StaffShock}

\* exit cards: [ready, dest]
NoExits == [ready |-> PerDept(0, 0, 0, 0), dest |-> NoDest]

\* every split equal to its ready-to-exit count
ExactExits ==
  [ready |-> PerDept(3, 2, 1, 0),
   dest |-> Dest(<<"ED", "OUT">> :> 1 @@ <<"ED", "SD">> :> 2
                 @@ <<"SD", "ED">> :> 1 @@ <<"SD", "CC">> :> 1
                 @@ <<"CC", "SU">> :> 1)]

\* over-specified splits, more ready than patients, a negative count, a self
\* entry beside an under-specified split
OverExits ==
  [ready |-> PerDept(2, 2, -1, 6),
   dest |-> Dest(<<"ED", "OUT">> :> 3
                 @@ <<"SD", "SD">> :> 1 @@ <<"SD", "CC">> :> 1
                 @@ <<"CC", "SD">> :> 1
                 @@ <<"SU", "OUT">> :> 1 @@ <<"SU", "ED">> :> 2
                 @@ <<"SU", "SD">> :> 2 @@ <<"SU", "CC">> :> 2)]

\* under-specified splits, a negative entry
UnderExits ==
  [ready |-> PerDept(1, 2, 3, 0),
   dest |-> Dest(<<"ED", "SD">> :> 2
                 @@ <<"SD", "OUT">> :> -1 @@ <<"SD", "ED">> :> 1
                 @@ <<"CC", "SD">> :> 1)]

ExitCards == {NoExits, ExactExits, OverExits, UnderExits}

Card(a, s, e) == HourInput(a.ext, a.walkin, a.ambulance, s, e.ready, e.dest)

HourInputs == {Card(a, s, e) : a \in ArrivalCards, s \in StaffCards, e \in ExitCards}

\* ------------------------------------------------------------ specification
\* optimize_hour called with its default weights on any HourInput
Call ==
  /\ \E hi \in HourInputs :
       Enter(hi, DefaultQualityWeight, DefaultFlowReward, "direct")
  /\ UNCHANGED ui

Next ==
  \/ Call
  \/ Departures
  \/ Arrivals
  \/ Solve
  \/ UpdateTotals
  \/ NextHour

Spec == Init /\ [][Next]_vars

\* optimize_hour called with caller-chosen weights <<quality_weight,
\* flow_reward>>: the defaults, no weight at all, a heavy quality weight with
\* a high flow reward, a negative flow reward, and a quality weight below -8,
\* which makes the objective coefficient of extra_staff negative
Weights ==
  {<<DefaultQualityWeight, DefaultFlowReward>>, <<0, 0>>, <<5, 1000>>,
   <<2, -500>>, <<-9, 300>>}

WeightedInputs ==
  { ZeroInput,
    Card(AmbulanceArrivals, NoShock, NoExits),
    Card(HeavyArrivals, StaffShock, ExactExits),
    Card(HeavyArrivals, NoShock, UnderExits) }

CallWeighted ==
  /\ \E hi \in WeightedInputs, w \in Weights : Enter(hi, w[1], w[2], "direct")
  /\ UNCHANGED ui

NextW ==
  \/ CallWeighted
  \/ Departures
  \/ Arrivals
  \/ Solve
  \/ SolveFailed
  \/ UpdateTotals
  \/ NextHour

SpecW == Init /\ [][NextW]_vars

\* optimize_hour called with its default weights on hours that crowd the
\* Emergency department, so that its rooms cannot take everyone who waits
CrowdingInputs ==
  { ZeroInput,
    Card(HeavyArrivals, NoShock, NoExits),
    Card(HeavyArrivals, NoShock, OverExits),
    Card(HeavyArrivals, StaffShock, ExactExits) }

CallCrowding ==
  /\ \E hi \in CrowdingInputs :
       Enter(hi, DefaultQualityWeight, DefaultFlowReward, "direct")
  /\ UNCHANGED ui

NextCrowding ==
  \/ CallCrowding
  \/ Departures
  \/ Arrivals
  \/ Solve
  \/ UpdateTotals
  \/ NextHour

SpecCrowding == Init /\ [][NextCrowding]_vars

\* a game played hour after hour past hour 24, on quiet hours (the hour
\* counter is the only thing they change), called with the default weights or
\* with a quality weight that makes the call fail
DayInputs == {ZeroInput}

DayWeights == {<<DefaultQualityWeight, DefaultFlowReward>>, <<-9, 300>>}

CallDay ==
  /\ ncalls < MaxDayCalls
  /\ \E hi \in DayInputs, w \in DayWeights : Begin(hi, w[1], w[2], "direct")
  /\ UNCHANGED ui

NextDay ==
  \/ CallDay
  \/ Departures
  \/ Arrivals
  \/ Solve
  \/ SolveFailed
  \/ UpdateTotals
  \/ NextHour

SpecDay == Init /\ [][NextDay]_vars

\* ------------------------------------------------------------ the UI
\* app._collect_hour_input.  A form has the shape of an HourInput; its counts
\* come from number inputs with min_value=0, its staff deltas are free, and the
\* split of department d is asked for only when ready[d] > 0, over OUT and the
\* other departments.
split_targets(d) == {"OUT"} \cup (DEPARTMENTS \ {d})

split_sum(f, d) ==
  SumOver([t \in split_targets(d) |-> f.destinations[<<d, t>>]], split_targets(d))

\* mutant: the split is not compared with ready-to-exit
collect_errors_none(f) == {}

\* the departments an error is reported for
collect_errors(f) ==
  {d \in DEPARTMENTS :
     f.ready_to_exit[d] > 0 /\ split_sum(f, d) # f.ready_to_exit[d]}

\* the HourInput returned when there is no error
collect_hour_input(f) ==
  HourInput([d \in DEPARTMENTS |-> IF d = "ED" THEN 0 ELSE f.external_arrivals[d]],
            f.ed_walkin_arrivals, f.ed_ambulance_arrivals, f.staff_delta,
            f.ready_to_exit,
            [k \in DEPARTMENTS \X Targets |->
               IF f.ready_to_exit[k[1]] > 0 /\ k[2] \in split_targets(k[1])
               THEN f.destinations[k] ELSE 0])

\* exit forms: what the widgets can hold
UiOverExits ==
  [ready |-> PerDept(2, 0, 0, 3),
   dest |-> Dest(<<"ED", "OUT">> :> 3
                 @@ <<"SU", "OUT">> :> 1 @@ <<"SU", "ED">> :> 2)]

UiUnderExits ==
  [ready |-> PerDept(1, 2, 3, 0),
   dest |-> Dest(<<"ED", "SD">> :> 1
                 @@ <<"SD", "ED">> :> 1
                 @@ <<"CC", "SD">> :> 1)]

Forms ==
  {Card(a, s, e) : a \in {NoArrivals, HeavyArrivals}, s \in StaffCards,
                   e \in {NoExits, ExactExits, UiOverExits, UiUnderExits}}

\* app.main, "Optimize this hour" with errors: they are shown, hour_input is
\* None and optimize_hour is not called
MainRejects ==
  /\ pc \in {"idle", "raised", "rejected"}
  /\ ncalls < MaxCalls
  /\ \E f \in Forms :
       /\ collect_errors(f) # {}
       /\ form' = f
       /\ errors' = collect_errors(f)
  /\ pre' = [hour |-> hour, depts |-> depts, totals |-> totals]
  /\ caller' = "main"
  /\ pc' = "rejected"
  /\ UNCHANGED <<game, ncalls, hour_input, quality_weight, flow_reward,
                 discharged_out_by_dept, decisions>>

\* app.main, "Optimize this hour" without errors: optimize_hour is called with
\* the HourInput collected and the sliders' weights
MainCalls ==
  \E f \in Forms :
    /\ collect_errors(f) = {}
    /\ form' = f
    /\ errors' = collect_errors(f)
    /\ Enter(collect_hour_input(f), DefaultQualityWeight, DefaultFlowReward, "main")

\* optimize_hour called by another caller than main, on an HourInput that no
\* one validated
UnvalidatedInputs ==
  { Card(HeavyArrivals, NoShock, OverExits),
    Card(NoArrivals, StaffShock, UnderExits),
    Card(NoArrivals, NoShock, ExactExits) }

CallUnvalidated ==
  /\ \E hi \in UnvalidatedInputs :
       Enter(hi, DefaultQualityWeight, DefaultFlowReward, "direct")
  /\ UNCHANGED ui

NextUI ==
  \/ MainRejects
  \/ MainCalls
  \/ CallUnvalidated
  \/ Departures
  \/ Arrivals
  \/ Solve
  \/ UpdateTotals
  \/ NextHour

SpecUI == Init /\ [][NextUI]_vars

\* ------------------------------------------------------------ properties
\* the departments as the call in progress (or the last call) found them after
\* steps 1-3, before the program is solved
Rolled == roll_request_age(pre.depts)
Transitioned ==
  CHOOSE T \in {apply_arrivals_and_staff(D, hour_input) :
                  D \in {apply_departures_and_requests(R, hour_input) :
                           R \in {Rolled}}} : TRUE

\* the call has applied its decisions (and may have returned)
Decided == pc \in {"applied", "totaled"} \/ (pc = "idle" /\ ncalls > 0)
\* the call has returned successfully
Returned == pc = "idle" /\ ncalls > 0

\* C1: after every successful optimize_hour call every department has
\* patients <= TOTAL_ROOMS and patients <= staff, the staff including the
\* extra staff called in that hour.
C1_CapacityAfterCall ==
  (pc \in {"applied", "totaled", "idle"}) =>
    \A d \in DEPARTMENTS :
      /\ depts[d].patients <= TOTAL_ROOMS[d]
      /\ depts[d].patients <= depts[d].staff

\* a call has returned in which one department called extra staff to cover its
\* patients and one department is full
C1_Witness ==
  /\ Returned
  /\ \E d \in DEPARTMENTS :
       /\ decisions[d].call_extra_staff > 0
       /\ depts[d].patients = depts[d].staff
  /\ \E d \in DEPARTMENTS : depts[d].patients = TOTAL_ROOMS[d]

\* C3: a transfer request routed to a department in the call for hour h sits in
\* that department's req_waiting_new for the rest of the call, is out of reach
\* of hour h's optimization, and is in req_waiting_mature once the call for
\* hour h+1 has aged the requests; admit_req[d] never exceeds the requests d
\* had before the call started.
C3_RequestsAgeOneHour ==
  /\ (pc = "rolled") =>
       \A d \in DEPARTMENTS :
         /\ depts[d].req_waiting_mature =
              pre.depts[d].req_waiting_mature + pre.depts[d].req_waiting_new
         /\ depts[d].req_waiting_new = 0
  /\ (pc \in {"departed", "transitioned"} \/ Decided) =>
       \A d \in DEPARTMENTS :
         /\ depts[d].req_waiting_new = routed_into(Rolled, hour_input, d)
         /\ depts[d].req_waiting_mature <=
              pre.depts[d].req_waiting_mature + pre.depts[d].req_waiting_new
  /\ Decided =>
       \A d \in DEPARTMENTS :
         /\ decisions[d].admit_requests <=
              pre.depts[d].req_waiting_mature + pre.depts[d].req_waiting_new
         /\ depts[d].req_waiting_mature =
              pre.depts[d].req_waiting_mature + pre.depts[d].req_waiting_new
              - decisions[d].admit_requests

\* in the second call a department admits a request that was routed to it in
\* the first, while a request routed to it in the second call waits as new
C3_Witness ==
  /\ pc = "applied"
  /\ \E d \in DEPARTMENTS :
       /\ pre.depts[d].req_waiting_new > 0
       /\ decisions[d].admit_requests > 0
       /\ depts[d].req_waiting_new > 0

\* C4: for every department d the units routed from d to the other
\* departments' req_waiting_new in one call are at most
\* min(requested ready-to-exit, patients before the transition), the requested
\* count being the clamped one, and discharges from d plus units routed from d
\* are exactly that minimum.
C4_DeparturesSplit ==
  (pc # "idle" /\ pc # "rolled") =>
    \A routed \in {[d \in DEPARTMENTS |-> routed_from(Rolled, hour_input, d)]} :
    /\ \A d \in DEPARTMENTS :
         LET m == Min2(clamp_non_negative(hour_input.ready_to_exit[d]),
                       pre.depts[d].patients)
         IN /\ routed[d] <= m
            /\ discharged_out_by_dept[d] + routed[d] = m
            /\ discharged_out_by_dept[d] >= 0
            /\ (pc = "departed") => depts[d].patients = pre.depts[d].patients - m
    /\ SumOver([t \in DEPARTMENTS |-> depts[t].req_waiting_new], DEPARTMENTS)
         = SumOver(routed, DEPARTMENTS)

\* a department asks for more exits than it has patients with an over-specified
\* split, and another under-specifies its split so that the rest is discharged
C4_Witness ==
  /\ pc = "departed"
  /\ \E d \in DEPARTMENTS :
       /\ hour_input.ready_to_exit[d] > pre.depts[d].patients
       /\ routed_from(Rolled, hour_input, d) > 0
       /\ SumOver([t \in DEPARTMENTS |-> hour_input.destinations[<<d, t>>]],
                  DEPARTMENTS) > routed_from(Rolled, hour_input, d)
  /\ \E d \in DEPARTMENTS :
       /\ routed_from(Rolled, hour_input, d) > 0
       /\ discharged_out_by_dept[d] >
            clamp_non_negative(hour_input.destinations[<<d, "OUT">>])

\* C7: diversion only ever removes units from ed_ambulance_waiting: in every
\* call ed_walkin_waiting decreases by exactly the walk-ins admitted,
\* ed_ambulance_waiting by exactly the ambulances admitted plus divert_ed, and
\* admit_ed_ambulance + divert_ed never exceeds the ambulance queue.
C7_DiversionOnlyFromAmbulanceQueue ==
  /\ (pc = "transitioned") => depts = Transitioned
  /\ Decided =>
       \A T \in {Transitioned["ED"]}, dec \in {decisions["ED"]} :
          /\ depts["ED"].ed_walkin_waiting =
               T.ed_walkin_waiting - dec.admit_walkins
          /\ depts["ED"].ed_ambulance_waiting =
               T.ed_ambulance_waiting - dec.admit_ambulance - dec.divert_ambulances
          /\ dec.admit_ambulance + dec.divert_ambulances <= T.ed_ambulance_waiting
          /\ dec.admit_walkins <= T.ed_walkin_waiting

\* both Emergency queues are non-empty before the solve, ambulances are
\* admitted, and walk-ins are left waiting
C7_Witness ==
  /\ pc = "applied"
  /\ Transitioned["ED"].ed_walkin_waiting > 0
  /\ Transitioned["ED"].ed_ambulance_waiting > 0
  /\ decisions["ED"].admit_ambulance > 0
  /\ depts["ED"].ed_walkin_waiting > 0

\* C8: in every reachable state, the states inside a call included, patients,
\* staff and every queue of every department are non-negative, whatever the
\* HourInput (negative counts, staff deltas below minus the staff).
C8_NonNegative ==
  \A d \in DEPARTMENTS :
    /\ depts[d].patients >= 0
    /\ depts[d].staff >= 0
    /\ depts[d].ext_waiting >= 0
    /\ depts[d].ed_walkin_waiting >= 0
    /\ depts[d].ed_ambulance_waiting >= 0
    /\ depts[d].req_waiting_mature >= 0
    /\ depts[d].req_waiting_new >= 0

\* a call whose input holds a negative arrival count, a negative ready-to-exit
\* count and a staff delta below minus the staff has finished its transition
C8_Witness ==
  /\ pc = "transitioned"
  /\ hour_input.ed_walkin_arrivals < 0
  /\ \E d \in DEPARTMENTS : hour_input.ready_to_exit[d] < 0
  /\ \E d \in DEPARTMENTS :
       /\ pre.depts[d].staff + hour_input.staff_delta[d] < 0
       /\ depts[d].staff = 0

\* C9: across successful calls financial_cost() and quality_penalty() never
\* decrease from one call to the next, and no Totals counter decreases.
C9_TotalsMonotone ==
  /\ financial_cost(totals) >= financial_cost(pre.totals)
  /\ quality_penalty(totals) >= quality_penalty(pre.totals)
  /\ totals.ed_diversions >= pre.totals.ed_diversions
  /\ totals.ed_waiting >= pre.totals.ed_waiting
  /\ totals.ed_extra_staff >= pre.totals.ed_extra_staff
  /\ \A d \in NonED :
       /\ totals.dep_arrivals_waiting[d] >= pre.totals.dep_arrivals_waiting[d]
       /\ totals.dep_requests_waiting[d] >= pre.totals.dep_requests_waiting[d]
       /\ totals.dep_extra_staff[d] >= pre.totals.dep_extra_staff[d]
  /\ totals.throughput_admitted >= pre.totals.throughput_admitted
  /\ totals.discharged_out >= pre.totals.discharged_out

\* a second call has returned; the first had left cost and penalty above 0 and
\* the second added less waiting than the first
C9_Witness ==
  /\ Returned
  /\ pre.hour = 2
  /\ financial_cost(pre.totals) > 0
  /\ quality_penalty(pre.totals) > 0
  /\ \E d \in NonED :
       /\ pre.totals.dep_arrivals_waiting[d] > 0
       /\ depts[d].ext_waiting < pre.totals.dep_arrivals_waiting[d]

\* C10: Scenario A, the idle hour: from the initial GameState at hour 1 an
\* HourInput of zeros yields no admission, no diversion, no extra staff,
\* hour = 2, and every Totals counter, financial_cost() and quality_penalty()
\* still 0.
C10_IdleHour ==
  (Returned /\ pre = GameState0 /\ hour_input = ZeroInput) =>
    /\ hour = 2
    /\ \A d \in DEPARTMENTS :
         /\ decisions[d].admit_external = 0
         /\ decisions[d].admit_requests = 0
         /\ decisions[d].call_extra_staff = 0
    /\ decisions["ED"].admit_walkins = 0
    /\ decisions["ED"].admit_ambulance = 0
    /\ decisions["ED"].divert_ambulances = 0
    /\ totals = Totals0
    /\ financial_cost(totals) = 0
    /\ quality_penalty(totals) = 0
    /\ depts = GameState0.depts

\* the idle hour has been played from the initial state
C10_Witness ==
  /\ Returned
  /\ pre = GameState0
  /\ hour_input = ZeroInput
  /\ hour = 2

\* Scenario C: before the solve non-Emergency department d has 10 external
\* arrivals waiting, staff for 2 more patients, and at least `rooms` free rooms
StaffBound(d, rooms) ==
  /\ d \in NonED
  /\ Transitioned[d].ext_waiting = 10
  /\ Transitioned[d].staff = Transitioned[d].patients + 2
  /\ TOTAL_ROOMS[d] - Transitioned[d].patients >= rooms

\* C6 as stated: in Scenario C, with room for all 10, the solved admit_ext is 2
\* and the other 8 stay in ext_waiting and are added to the department's
\* arrivals-waiting total.
C6_StaffBoundAdmitsTwo ==
  \A d \in NonED :
    (Returned /\ StaffBound(d, 10)) =>
      /\ decisions[d].admit_external = 2
      /\ depts[d].ext_waiting = 8
      /\ totals.dep_arrivals_waiting[d] = pre.totals.dep_arrivals_waiting[d] + 8

\* C6 as amended: in Scenario C, with the default weights, staff does not bind:
\* admit_ext is min(10, free rooms), extra staff is called for every patient
\* admitted beyond the 2 that the staff present covers, and only the arrivals
\* the rooms cannot take stay in ext_waiting and are added to the department's
\* arrivals-waiting total.
C6_StaffBoundCallsExtraStaff ==
  \A d \in NonED :
    (Returned /\ StaffBound(d, 2)) =>
      LET free == TOTAL_ROOMS[d] - Transitioned[d].patients
          ae == decisions[d].admit_external
      IN /\ ae = Min2(10, free)
         /\ decisions[d].call_extra_staff = ae + decisions[d].admit_requests - 2
         /\ depts[d].ext_waiting = 10 - ae
         /\ totals.dep_arrivals_waiting[d] =
              pre.totals.dep_arrivals_waiting[d] + (10 - ae)

\* Scenario C has been played in a department with room for all 10 arrivals:
\* all 10 were admitted and 8 extra staff called
C6_Witness ==
  /\ Returned
  /\ \E d \in NonED :
       /\ StaffBound(d, 10)
       /\ decisions[d].admit_external = 10
       /\ decisions[d].call_extra_staff >= 8
       /\ depts[d].ext_waiting = 0

\* C2: when the solver returns a status other than Optimal, optimize_hour
\* fails and the GameState is exactly as it was before the call.
C2_FailedCallLeavesStateUntouched ==
  (pc = "raised") =>
    /\ hour = pre.hour
    /\ depts = pre.depts
    /\ totals = pre.totals

\* some department's destination-split total differs from its declared
\* ready-to-exit count
Mismatched(hi) ==
  \E d \in DEPARTMENTS :
    SumOver([t \in Targets |-> hi.destinations[<<d, t>>]], Targets)
      # hi.ready_to_exit[d]

\* C5 as stated: the core does not mutate GameState from an HourInput with a
\* mismatched split; such an input produces a validation error instead of a
\* state change.
C5_CoreRejectsMismatchedSplit ==
  (ncalls > 0 /\ pc \notin {"rejected"} /\ Mismatched(hour_input)) =>
    /\ hour = pre.hour
    /\ depts = pre.depts
    /\ totals = pre.totals
    /\ errors # {}

\* C5 as amended: the validation is the UI's, not the core's.
\* _collect_hour_input reports every department whose ready-to-exit count is
\* above 0 and differs from its split total, main then makes no optimize_hour
\* call and the GameState is unchanged; every HourInput main does pass on has
\* matching splits.  optimize_hour itself validates nothing: called with a
\* mismatched HourInput it runs the hour to its end, every departure either
\* routed or discharged.
C5_UiRejectsMismatchedSplit ==
  /\ (pc = "rejected") =>
       /\ errors # {}
       /\ Mismatched(form)
       /\ hour = pre.hour /\ depts = pre.depts /\ totals = pre.totals
  /\ (caller = "main" /\ pc # "rejected") =>
       /\ errors = {}
       /\ ~Mismatched(hour_input)
       /\ hour_input = collect_hour_input(form)
  /\ (caller = "direct" /\ Returned /\ Mismatched(hour_input)) =>
       /\ hour = pre.hour + 1
       /\ \A d \in DEPARTMENTS :
            depts[d].patients =
              pre.depts[d].patients - actual_departures(pre.depts, hour_input, d)
              + decisions[d].admit_external + decisions[d].admit_requests
       /\ totals.discharged_out
            + SumOver([d \in DEPARTMENTS |-> depts[d].req_waiting_new], DEPARTMENTS)
          = pre.totals.discharged_out
            + SumOver([d \in DEPARTMENTS |->
                         actual_departures(pre.depts, hour_input, d)], DEPARTMENTS)

\* main has rejected a form with a mismatched split after an earlier call that
\* went through
C5_Witness ==
  /\ pc = "rejected"
  /\ hour = 2
  /\ \E d \in DEPARTMENTS : d \in errors /\ split_sum(form, d) > form.ready_to_exit[d]

\* C11: Scenario B, cheap admission: the Emergency department receives a > 0
\* ambulance arrivals, has no other waiting patient, and patients + a is within
\* room capacity and current staff; with the default weights the solved
\* decision admits all a ambulance arrivals and divert_ed = 0.
C11_CheapAdmission ==
  LET T == Transitioned["ED"]
      a == T.ed_ambulance_waiting
  IN (/\ Decided
      /\ a > 0
      /\ hour_input.ed_ambulance_arrivals = a
      /\ T.ed_walkin_waiting = 0
      /\ T.req_waiting_mature = 0
      /\ T.patients + a <= TOTAL_ROOMS["ED"]
      /\ T.patients + a <= T.staff) =>
       /\ decisions["ED"].admit_ambulance = a
       /\ decisions["ED"].divert_ambulances = 0
       /\ decisions["ED"].call_extra_staff = 0
       /\ depts["ED"].ed_ambulance_waiting = 0
       /\ depts["ED"].patients = T.patients + a

\* Scenario B has been played: 2 ambulances arrived at an Emergency department
\* with staff for exactly 2 more, and both were admitted
C11_Witness ==
  /\ Returned
  /\ hour_input.ed_ambulance_arrivals = 2
  /\ Transitioned["ED"].ed_ambulance_waiting = 2
  /\ Transitioned["ED"].ed_walkin_waiting = 0
  /\ Transitioned["ED"].req_waiting_mature = 0
  /\ Transitioned["ED"].patients + 2 = Transitioned["ED"].staff
  /\ decisions["ED"].admit_ambulance = 2

\* the HourInput with its negative arrival, ready-to-exit and destination
\* counts replaced by 0
ZeroedNegatives(hi) ==
  [hi EXCEPT
     !.external_arrivals = [d \in DEPARTMENTS |-> Max2(0, hi.external_arrivals[d])],
     !.ed_walkin_arrivals = Max2(0, hi.ed_walkin_arrivals),
     !.ed_ambulance_arrivals = Max2(0, hi.ed_ambulance_arrivals),
     !.ready_to_exit = [d \in DEPARTMENTS |-> Max2(0, hi.ready_to_exit[d])],
     !.destinations = [k \in DEPARTMENTS \X Targets |-> Max2(0, hi.destinations[k])]]

\* C12: negative arrival, ready-to-exit and destination counts are treated as
\* zero: the departures, the discharges and the state handed to the solver are
\* those of the input with the negative counts replaced by 0 (so the decisions
\* solved from that state are the same), the totals are updated from the same
\* figures, and the call returns.
C12_NegativeCountsAreZero ==
  \A z \in {ZeroedNegatives(hour_input)} :
     /\ (pc \in {"departed", "transitioned", "applied"}) =>
          \A Dz \in {apply_departures_and_requests(R, z) : R \in {Rolled}} :
             /\ (pc = "departed") => depts = Dz
             /\ (pc = "transitioned") => depts = apply_arrivals_and_staff(Dz, z)
             /\ (pc = "applied") => Transitioned = apply_arrivals_and_staff(Dz, z)
     /\ (pc \in {"departed", "transitioned"} \/ Decided) =>
          \A outz \in {[d \in DEPARTMENTS |-> discharged_from(R, z, d)] : R \in {Rolled}} :
             /\ discharged_out_by_dept = outz
             /\ (pc = "totaled" \/ Returned) =>
                  totals = update_totals(pre.totals, depts, decisions, outz)
     /\ pc # "raised"

\* a call whose input holds a negative arrival count and a negative
\* destination count has returned
C12_Witness ==
  /\ Returned
  /\ hour_input.ed_walkin_arrivals < 0
  /\ \E d \in NonED : hour_input.external_arrivals[d] < 0
  /\ \E k \in DEPARTMENTS \X Targets : hour_input.destinations[k] < 0
  /\ \E d \in DEPARTMENTS : actual_departures(Rolled, hour_input, d) > 0

remaining_before(D, hi, d, t) ==
  Max2(0, actual_departures(D, hi, d)
          - Max2(0, hi.destinations[<<d, "OUT">>])
          - SumOver([u \in DEPARTMENTS |->
                       IF u # d /\ IndexOf(u) < IndexOf(t)
                       THEN Max2(0, hi.destinations[<<d, u>>]) ELSE 0],
                    DEPARTMENTS))

\* C14: the destination map is consumed in a fixed order, OUT first, then
\* Emergency, Step-Down, Critical Care, Surgery, each entry clipped to the
\* departures still unallocated; an entry naming the department itself is
\* ignored.
C14_DestinationOrder ==
  (pc = "departed") =>
     /\ \A d \in DEPARTMENTS :
          /\ out_count(Rolled, hour_input, d) =
               Min2(Max2(0, hour_input.destinations[<<d, "OUT">>]),
                    actual_departures(Rolled, hour_input, d))
          /\ \A t \in DEPARTMENTS :
               routed_to(Rolled, hour_input, d, t) =
                 IF t = d THEN 0
                 ELSE Min2(Max2(0, hour_input.destinations[<<d, t>>]),
                           remaining_before(Rolled, hour_input, d, t))
          /\ discharged_out_by_dept[d] =
               actual_departures(Rolled, hour_input, d) - routed_from(Rolled, hour_input, d)
     /\ \A t \in DEPARTMENTS :
          depts[t].req_waiting_new =
            SumOver([d \in DEPARTMENTS |->
                       IF t = d THEN 0
                       ELSE Min2(Max2(0, hour_input.destinations[<<d, t>>]),
                                 remaining_before(Rolled, hour_input, d, t))],
                    DEPARTMENTS)

\* an over-specified map has been consumed: one later entry cut short, one
\* left with nothing, and a self entry ignored
C14_Witness ==
  /\ pc = "departed"
  /\ \E d \in DEPARTMENTS :
       /\ out_count(Rolled, hour_input, d) > 0
       /\ \E t \in DEPARTMENTS \ {d} :
            /\ routed_to(Rolled, hour_input, d, t) > 0
            /\ routed_to(Rolled, hour_input, d, t) < hour_input.destinations[<<d, t>>]
       /\ \E t \in DEPARTMENTS \ {d} :
            /\ routed_to(Rolled, hour_input, d, t) = 0
            /\ hour_input.destinations[<<d, t>>] > 0
  /\ \E d \in DEPARTMENTS :
       /\ hour_input.destinations[<<d, d>>] > 0
       /\ actual_departures(Rolled, hour_input, d) > 0

\* C15: for every quality_weight >= 0, with any flow_reward, the hourly program
\* is feasible and bounded in every reachable state and for every input, so
\* optimize_hour never raises; a staffing shock that leaves staff below
\* patients is absorbed by extra_staff.
C15_NeverRaisesForNonNegativeWeight ==
  /\ (pc = "transitioned" /\ quality_weight >= 0) =>
        /\ \A d \in DEPARTMENTS :
             /\ Feasible(depts, d) # {}
             /\ ExtraStaffCoefficient(d, quality_weight) > 0
        /\ SolveStatus(depts, quality_weight) = "Optimal"
  /\ (pc = "raised") => quality_weight < 0
  /\ (Decided /\ quality_weight >= 0) =>
        \A d \in DEPARTMENTS :
          (Transitioned[d].staff < Transitioned[d].patients) =>
             /\ decisions[d].call_extra_staff >=
                  Transitioned[d].patients - Transitioned[d].staff
             /\ depts[d].patients <= depts[d].staff

\* a call with a non-default, non-negative quality weight has solved an hour
\* whose staffing shock left a department's staff below its patients
C15_Witness ==
  /\ pc = "applied"
  /\ quality_weight >= 0
  /\ <<quality_weight, flow_reward>> # <<DefaultQualityWeight, DefaultFlowReward>>
  /\ \E d \in DEPARTMENTS :
       /\ hour_input.staff_delta[d] < 0
       /\ Transitioned[d].staff < Transitioned[d].patients
       /\ decisions[d].call_extra_staff > 0

\* C19: for every quality_weight >= 0 and any flow_reward the optimizer never
\* diverts: divert_ed is 0 in every solution it returns, and the ed_diversions
\* total stays 0.
C19_NeverDiverts ==
  /\ (Decided /\ quality_weight >= 0) =>
        /\ decisions["ED"].divert_ambulances = 0
        /\ depts["ED"].ed_ambulance_waiting =
             Transitioned["ED"].ed_ambulance_waiting - decisions["ED"].admit_ambulance
  /\ totals.ed_diversions = 0

\* an hour has been solved that left ambulance patients waiting, under a
\* negative flow reward, without diverting any
C19_Witness ==
  /\ Returned
  /\ quality_weight >= 0
  /\ flow_reward < 0
  /\ depts["ED"].ed_ambulance_waiting > 0
  /\ decisions["ED"].divert_ambulances = 0
  /\ totals.ed_waiting > 0

\* C20: for every quality_weight >= 0 the extra staff called in a department
\* is max(0, end-of-hour patients - staff after the shock), never more; after
\* a successful call call_extra_staff = 0 or staff = patients; and the extra
\* staff stays in staff in the later hours.
C20_ExtraStaffIsTheShortfall ==
  /\ (Decided /\ quality_weight >= 0) =>
        \A d \in DEPARTMENTS :
          /\ decisions[d].call_extra_staff =
               Max2(0, depts[d].patients - Transitioned[d].staff)
          /\ depts[d].staff = Transitioned[d].staff + decisions[d].call_extra_staff
          /\ \/ decisions[d].call_extra_staff = 0
             \/ depts[d].staff = depts[d].patients
  /\ (pc \in {"rolled", "departed"}) =>
        \A d \in DEPARTMENTS : depts[d].staff = pre.depts[d].staff
  /\ (pc = "transitioned") =>
        \A d \in DEPARTMENTS :
          depts[d].staff = Max2(0, pre.depts[d].staff + hour_input.staff_delta[d])

\* the extra staff one hour called is still there in the next hour, which
\* calls extra staff in one department and none in another
C20_Witness ==
  /\ Returned
  /\ quality_weight >= 0
  /\ \E d \in DEPARTMENTS :
       /\ pre.depts[d].staff > STATE0_STAFF[d]
       /\ hour_input.staff_delta[d] = 0
       /\ depts[d].staff >= pre.depts[d].staff
  /\ \E d \in DEPARTMENTS :
       /\ decisions[d].call_extra_staff > 0
       /\ depts[d].staff = depts[d].patients
  /\ \E d \in DEPARTMENTS :
       /\ decisions[d].call_extra_staff = 0
       /\ depts[d].staff > depts[d].patients

\* the assignment of the solver's variables that the decision records report
solved_assignment(dec) ==
  [d \in DEPARTMENTS |->
     [admit_ext |-> IF d = "ED" THEN 0 ELSE dec[d].admit_external,
      admit_ed_walkin |-> IF d = "ED" THEN dec[d].admit_walkins ELSE 0,
      admit_ed_ambulance |-> IF d = "ED" THEN dec[d].admit_ambulance ELSE 0,
      admit_req |-> dec[d].admit_requests,
      divert_ed |-> IF d = "ED" THEN dec[d].divert_ambulances ELSE 0,
      extra_staff |-> dec[d].call_extra_staff]]

\* C16 as stated: the increase of financial_cost() and of quality_penalty()
\* over a successful call equals the objective's financial and quality
\* expressions at the solved decision, and the figure added to ed_waiting is
\* the end-of-hour walk-in + ambulance + request-queue (mature and new) count
\* of the Emergency department.
C16_TotalsMatchObjective ==
  (pc = "totaled" \/ Returned) =>
     LET x == solved_assignment(decisions)
         T == Transitioned
     IN /\ financial_cost(totals) - financial_cost(pre.totals) =
             SumOver([d \in DEPARTMENTS |-> financial(T, d, x[d])], DEPARTMENTS)
        /\ quality_penalty(totals) - quality_penalty(pre.totals) =
             SumOver([d \in DEPARTMENTS |-> quality(T, d, x[d])], DEPARTMENTS)
        /\ totals.ed_waiting - pre.totals.ed_waiting =
             depts["ED"].ed_walkin_waiting + depts["ED"].ed_ambulance_waiting
             + depts["ED"].req_waiting_mature + depts["ED"].req_waiting_new

\* patients in the departments and in their request queues
in_hospital(D) ==
  SumOver([d \in DEPARTMENTS |->
             D[d].patients + D[d].req_waiting_mature + D[d].req_waiting_new],
          DEPARTMENTS)

\* C17: patients are conserved over a successful call: the sum over the
\* departments of patients + req_waiting_mature + req_waiting_new afterwards is
\* the sum before plus the external admissions less the patients discharged
\* out; the admitted and discharged figures of the hour are the increments of
\* throughput_admitted and discharged_out, and the sums of the per-department
\* decision records and discharges.
C17_PatientsConserved ==
  LET external == SumOver([d \in DEPARTMENTS |-> decisions[d].admit_external],
                          DEPARTMENTS)
      requests == SumOver([d \in DEPARTMENTS |-> decisions[d].admit_requests],
                          DEPARTMENTS)
      discharged == SumOver(discharged_out_by_dept, DEPARTMENTS)
      departed == SumOver([d \in DEPARTMENTS |->
                             actual_departures(Rolled, hour_input, d)], DEPARTMENTS)
      routed == SumOver([d \in DEPARTMENTS |-> routed_from(Rolled, hour_input, d)],
                        DEPARTMENTS)
  IN /\ Decided =>
          /\ in_hospital(depts) = in_hospital(pre.depts) + external - discharged
          /\ discharged = departed - routed
     /\ (pc = "totaled" \/ Returned) =>
          /\ totals.throughput_admitted - pre.totals.throughput_admitted =
               external + requests
          /\ admitted_total(decisions) = external + requests
          /\ totals.discharged_out - pre.totals.discharged_out = discharged

\* an hour has returned in which patients left the hospital, were routed to
\* another department, spilled to discharge, and were admitted from outside
\* and from a request queue
C17_Witness ==
  /\ Returned
  /\ \E d \in DEPARTMENTS : decisions[d].admit_external > 0
  /\ \E d \in DEPARTMENTS : decisions[d].admit_requests > 0
  /\ \E d \in DEPARTMENTS : routed_from(Rolled, hour_input, d) > 0
  /\ \E d \in DEPARTMENTS :
       discharged_out_by_dept[d] > out_count(Rolled, hour_input, d)
  /\ in_hospital(depts) # in_hospital(pre.depts)

\* C18: with the default weights every department fills its free rooms:
\* patients after a successful call is min(room capacity, patients after
\* departures + admissible waiting), the admissible waiting being external
\* arrivals + mature requests (walk-ins + ambulances + mature requests in
\* Emergency); in a non-Emergency department external arrivals come first.
C18_FreeRoomsAreFilled ==
  (Decided /\ quality_weight = DefaultQualityWeight
           /\ flow_reward = DefaultFlowReward) =>
     \A TT \in {Transitioned} : \A d \in DEPARTMENTS : \A T \in {TT[d]} :
       LET free == TOTAL_ROOMS[d] - T.patients
           admissible == IF d = "ED"
                         THEN T.ed_walkin_waiting + T.ed_ambulance_waiting
                              + T.req_waiting_mature
                         ELSE T.ext_waiting + T.req_waiting_mature
       IN /\ depts[d].patients = Min2(TOTAL_ROOMS[d], T.patients + admissible)
          /\ (d # "ED") =>
               /\ decisions[d].admit_external = Min2(T.ext_waiting, free)
               /\ decisions[d].admit_requests =
                    Min2(T.req_waiting_mature, free - decisions[d].admit_external)

\* a non-Emergency department with both queues waiting has been filled to its
\* rooms with external arrivals while requests stayed, and another department
\* took everything that waited and kept free rooms
C18_Witness ==
  /\ Returned
  /\ \E d \in NonED :
       /\ Transitioned[d].ext_waiting > 0
       /\ Transitioned[d].req_waiting_mature > 0
       /\ decisions[d].admit_external > 0
       /\ decisions[d].admit_requests < Transitioned[d].req_waiting_mature
       /\ depts[d].patients = TOTAL_ROOMS[d]
  /\ \E d \in DEPARTMENTS :
       /\ decisions[d].admit_requests > 0
       /\ decisions[d].call_extra_staff > 0
       /\ depts[d].patients < TOTAL_ROOMS[d]

\* C21: results are deterministic up to the solver's tie-breaking: with the
\* default weights, whatever other optimal solution y the solver could have
\* returned for a department, the call ends with the same hour, the same
\* patients, staff, ext_waiting and req_waiting_new in every department, the
\* same non-Emergency queues, the same Totals and the same objective value;
\* only the split of the Emergency admissions among its walk-in, ambulance and
\* mature-request queues can differ.
C21_DeterministicUpToTies ==
  Decided =>
  \A T \in {Transitioned}, x1 \in {solved_assignment(decisions)},
     totals1 \in {update_totals(pre.totals, depts, decisions, discharged_out_by_dept)} :
     /\ (pc = "applied" /\ quality_weight = DefaultQualityWeight
                        /\ flow_reward = DefaultFlowReward) =>
          \A d \in DEPARTMENTS :
            \A y \in Optimal(T, d, quality_weight, flow_reward) :
              LET x2 == [x1 EXCEPT ![d] = y]
                  D2 == apply_decisions(T, x2)
              IN /\ \A e \in DEPARTMENTS :
                      /\ D2[e].patients = depts[e].patients
                      /\ D2[e].staff = depts[e].staff
                      /\ D2[e].ext_waiting = depts[e].ext_waiting
                      /\ D2[e].req_waiting_new = depts[e].req_waiting_new
                      /\ (e # "ED") => D2[e] = depts[e]
                 /\ update_totals(pre.totals, D2, decision_records(x2),
                                  discharged_out_by_dept) = totals1
                 /\ Objective(T, d, y, quality_weight, flow_reward)
                    = Objective(T, d, x1[d], quality_weight, flow_reward)
                 /\ (y # x1[d]) => d = "ED"
     /\ (pc = "totaled" \/ Returned) =>
          /\ totals = totals1
          /\ depts = apply_decisions(T, x1)
     /\ Returned => hour = pre.hour + 1

\* a call has returned for which the solver had another optimal solution,
\* splitting the Emergency admissions differently between the mature requests
\* and the arrivals
C21_Witness ==
  /\ Returned
  /\ \E y \in Optimal(Transitioned, "ED", quality_weight, flow_reward) :
       /\ y.admit_req # decisions["ED"].admit_requests
       /\ y.admit_ed_walkin # decisions["ED"].admit_walkins
       /\ apply_decisions(Transitioned,
                          [solved_assignment(decisions) EXCEPT !["ED"] = y])
          # depts

\* C22: the hour counter starts at 1, increases by exactly 1 on every
\* successful optimize_hour call, as the last thing the call changes (a failed
\* call leaves it unchanged), never decreases, and is not capped at 24.
C22_HourCounter ==
  /\ hour = 1
  /\ [][/\ hour' >= hour
        /\ (hour' # hour) =>
             /\ hour' = hour + 1
             /\ pc = "totaled" /\ pc' = "idle"
             /\ depts' = depts /\ totals' = totals
        /\ (pc = "totaled") => hour' = hour + 1
        /\ (pc = "idle" /\ hour' = hour /\ pc' # "idle") => pc' = "rolled"]_vars
  /\ [](pc # "idle" => hour = pre.hour)
  /\ [](Returned => hour = pre.hour + 1)
  /\ [](pc = "raised" => hour = pre.hour)

\* the game has been played past hour 24, and a call failed on the way
C22_Witness ==
  /\ Returned
  /\ hour > 25
  /\ ncalls > hour - 1

====
